---------------------------- MODULE Spec2Model ----------------------------
(***************************************************************************)
(* A model of segmask.py (CRBS/segmask): masking of organelle              *)
(* segmentations against a cell model, slice by slice.                     *)
(*                                                                         *)
(* The script is one sequential run.  It is modelled in phases, each a     *)
(* specification of its own over the same variables:                       *)
(*   Spec      lines 143-203: validation, tmp directory, model loading,    *)
(*             pruning/sorting, zmin/zmax, zlist;                          *)
(*   SpecGetZ  lines 120-133: get_z_from_ImodContour on one contour;       *)
(*   SpecLoop  lines 211-303: the file listing, the masking loop, the      *)
(*             accumulator, the removal of cell.mod, point2model and the   *)
(*             read of out.mod;                                            *)
(*   SpecMask  lines 205-209 and 235-251: the rasters of one slice;        *)
(*   SpecPost  lines 302-335: postprocessing.                              *)
(* A phase starts from the states the run can be in when it reaches the    *)
(* phase's first line.  Variables a phase does not follow keep the values  *)
(* they have before the run sets them.                                     *)
(*                                                                         *)
(* A contour is the sequence of the Z coordinates of its points            *)
(* (cont.points[2::3]); a coordinate c stands for the float c/2, so that   *)
(* int() truncates.  Files of the tmp directory are their names; the       *)
(* content is kept only for the two files the script itself reads          *)
(* (the slice's point listing and the accumulator out.txt).                *)
(***************************************************************************)
EXTENDS Integers, Sequences, FiniteSets, TLC

VARIABLES
    pc,         \* position of the run
    args,       \* number of positional arguments given
    fs,         \* what os.path.isfile / isdir answer for the given paths
    tmpDir,     \* <path_out>/tmp: "absent", "dir" (was there), "made"
    opts,       \* parsed options
    usageShown, \* usage() has printed the help and the error
    status,     \* exit status of the process, -1 while running
    exc,        \* the uncaught exception, if any: [type, at]
    ncalls,     \* external tools invoked so far
    toolFailed, \* some external tool has exited with a non-zero status
    mod,        \* the pyimod model: [loaded, contours] (first object)
    zmin, zmax, zprev, zlist, iCont,
    missingAt,  \* values of iCont at which 'WARNING: Missing contour' was printed
    nMultiZ,    \* number of multi-Z warnings printed
    dims,       \* <<nRowMrc, nColMrc>>
    nfiles,     \* len(filesOrg)
    files,      \* names of the files present in the tmp directory
    k,          \* position in zlist of the slice being processed (1-based)
    C,          \* running contour counter
    txt,        \* content of the slice's point listing <zi>.txt
    acc,        \* content of the accumulator out.txt
    orgIdx,     \* 0-based position in filesOrg of the raster loaded for the slice
    cont, uq,   \* SpecGetZ: the contour given and the value returned
    imgCell, imgOrg, imgMask,   \* SpecMask: the rasters of one slice
    disk,       \* SpecMask: the rasters in the files, [cell, org]
    objs        \* SpecPost: the objects of the assembled model

envVars == <<args, fs, opts>>
modelVars == <<mod, zmin, zmax, zprev, iCont, missingAt, nMultiZ>>
loopVars == <<dims, nfiles, files, k, C, txt, acc, orgIdx>>
getzVars == <<cont, uq>>
maskVars == <<imgCell, imgOrg, imgMask, disk>>

vars == <<pc, envVars, tmpDir, usageShown, status, exc, ncalls, toolFailed,
          modelVars, zlist, loopVars, getzVars, maskVars, objs>>

-----------------------------------------------------------------------------
(* Bounds of the model. *)
\* positional arguments: 0..MaxArgs
MaxArgs == 4
\* contours of the first object (Spec)
MaxContours == 2
\* points of a contour (Spec)
MaxRunPts == 1
\* points of a contour (SpecGetZ)
MaxPts == 3
\* integral Z values: 0..MaxZ
MaxZ == 2
\* rows and columns of a raster, and of the volume
MaxDim == 2
\* files in the segmentation directory
MaxFiles == 2
\* length of zlist (SpecLoop)
MaxSlices == 2
\* lines of one slice's point listing
MaxLines == 2
\* objects imodsortsurf returns
MaxObjects == 2
\* contours of one object
MaxCount == 2
\* value given to --filterByNContours
MaxThreshold == 2

-----------------------------------------------------------------------------
(* Sequences. *)
Range(s) == {s[i] : i \in 1..Len(s)}

SeqsUpTo(S, n) == UNION {[1..m -> S] : m \in 0..n}

RECURSIVE SumSeq(_)
SumSeq(s) == IF s = <<>> THEN 0 ELSE s[1] + SumSeq(Tail(s))

RECURSIVE SortedSeq(_)
\* the elements of a finite set of integers, ascending
SortedSeq(S) ==
    IF S = {} THEN <<>>
    ELSE LET m == CHOOSE x \in S : \A y \in S : x <= y
         IN  <<m>> \o SortedSeq(S \ {m})

\* s with the positions outside keep deleted
Keep(s, keep) ==
    LET idx == SortedSeq(keep \cap (1..Len(s)))
    IN  [i \in 1..Len(idx) |-> s[idx[i]]]

-----------------------------------------------------------------------------
(* get_z_from_ImodContour, lines 120-133. *)

\* int(x) on the float c/2: truncation towards zero
PyInt(c) == IF c >= 0 THEN c \div 2 ELSE -((-c) \div 2)

\* np.unique: the distinct values, ascending
NpUnique(s) == SortedSeq(Range(s))

\* len(cont_u == 1): cont_u == 1 is the elementwise comparison, an array as
\* long as cont_u; its length is what the if tests
LenOfEqOne(cont_u) == Len(cont_u)

\* The value returned, whether the warning is printed, whether it raises.
\* The else branch is only reached with no point at all, where max() of an
\* empty set raises ValueError.
get_z_from_ImodContour(c) ==
    LET cont_u == NpUnique([i \in 1..Len(c) |-> PyInt(c[i])])
    IN  IF LenOfEqOne(cont_u) # 0
        THEN [uq |-> cont_u[1], warn |-> FALSE, raised |-> FALSE]
        ELSE [uq |-> 0, warn |-> FALSE, raised |-> TRUE]

-----------------------------------------------------------------------------
(* Values of the variables a phase does not use. *)
NoMod == [loaded |-> FALSE, contours |-> <<>>]
NoImg == <<>>

\* An option given no value keeps optparse's default, the integer 0; a value
\* given on the command line is kept as a string.
OptDefault == [isStr |-> FALSE, n |-> 0]
OptStr(n) == [isStr |-> TRUE, n |-> n]

DefaultOpts == [runImodfillin |-> FALSE, runPostprocessing |-> FALSE,
                filterByNContours |-> OptDefault, mergeAll |-> FALSE]

NoExc == [type |-> "none", at |-> "none"]

\* The values of the variables before the phase that sets them has run.
IdleRun == usageShown = FALSE /\ status = -1 /\ exc = NoExc /\ ncalls = 0
           /\ toolFailed = FALSE
IdleModel == mod = NoMod /\ zmin = 0 /\ zmax = 0 /\ zprev = 0 /\ iCont = 0
             /\ missingAt = {} /\ nMultiZ = 0
IdleLoop == dims = <<0, 0>> /\ nfiles = 0 /\ files = {} /\ k = 0 /\ C = 0
            /\ txt = <<>> /\ acc = <<>> /\ orgIdx = -1
IdleGetZ == cont = <<>> /\ uq = 0
IdleMask == imgCell = NoImg /\ imgOrg = NoImg /\ imgMask = NoImg
            /\ disk = [cell |-> NoImg, org |-> NoImg]
IdlePost == objs = <<>>

\* The environment of a run that has passed validation and made tmp.
Validated ==
    /\ args = 3
    /\ fs = [mrc |-> TRUE, mod |-> TRUE, seg |-> TRUE, out |-> TRUE]
    /\ tmpDir = "made"

\* usage(), lines 135-141: prints the help and the error, then exit(1)
usage ==
    /\ usageShown' = TRUE
    /\ status' = 1
    /\ pc' = "exit"
    /\ UNCHANGED exc

\* An exception nobody catches: the traceback is printed and the interpreter
\* exits with status 1.  Nothing is cleaned up.
Raise(type) ==
    /\ status' = 1
    /\ exc' = [type |-> type, at |-> pc]
    /\ pc' = "crashed"

-----------------------------------------------------------------------------
(* Spec: lines 143-203. *)

\* coordinates of the points of the models Spec loads: integral Z values
RunCoords == {2 * z : z \in 0..MaxZ}
RunContours == SeqsUpTo(RunCoords, MaxRunPts)

Init ==
    /\ pc = "check_args"
    /\ args \in 0..MaxArgs
    /\ fs \in [mrc : BOOLEAN, mod : BOOLEAN, seg : BOOLEAN, out : BOOLEAN]
    /\ tmpDir \in {"absent", "dir", "file"}
    /\ opts \in {[DefaultOpts EXCEPT !.runImodfillin = b] : b \in BOOLEAN}
    /\ IdleRun /\ IdleModel /\ zlist = <<>> /\ IdleLoop /\ IdleGetZ /\ IdleMask
    /\ IdlePost

\* check_args, lines 106-118 (called from parse_args, line 103); on the
\* small integers 'len(args) is not 3' is len(args) != 3
ArgsValid == args = 3 /\ fs.mrc /\ fs.mod /\ fs.seg

CheckArgs ==
    /\ pc = "check_args"
    /\ IF ArgsValid
       THEN pc' = "check_out" /\ UNCHANGED <<usageShown, status, exc>>
       ELSE usage
    /\ UNCHANGED <<envVars, tmpDir, ncalls, toolFailed, modelVars, zlist, loopVars, getzVars, maskVars, objs>>

\* lines 147-152
OutValid == fs.out

CheckOut ==
    /\ pc = "check_out"
    /\ IF OutValid
       THEN pc' = "check_tmp" /\ UNCHANGED <<usageShown, status, exc>>
       ELSE usage
    /\ UNCHANGED <<envVars, tmpDir, ncalls, toolFailed, modelVars, zlist, loopVars, getzVars, maskVars, objs>>

\* a variant of TmpConflict that tests isfile instead of isdir
TmpConflictIsFile == tmpDir = "file"

\* lines 155-158: os.path.isdir(path_tmp)
TmpConflict == tmpDir = "dir"

CheckTmp ==
    /\ pc = "check_tmp"
    /\ IF TmpConflict
       THEN usage
       ELSE pc' = "makedirs" /\ UNCHANGED <<usageShown, status, exc>>
    /\ UNCHANGED <<envVars, tmpDir, ncalls, toolFailed, modelVars, zlist, loopVars, getzVars, maskVars, objs>>

\* line 159: os.makedirs raises OSError when the name tmp is taken by a file
Makedirs ==
    /\ pc = "makedirs"
    /\ IF tmpDir = "absent"
       THEN tmpDir' = "made" /\ pc' = "load" /\ UNCHANGED <<status, exc>>
       ELSE Raise("OSError") /\ UNCHANGED tmpDir
    /\ UNCHANGED <<envVars, usageShown, ncalls, toolFailed, modelVars, zlist, loopVars, getzVars, maskVars, objs>>

\* line 163: pyimod.ImodModel(file_mod); a file that is no model raises
LoadModel ==
    /\ pc = "load"
    /\ \/ \E cs \in SeqsUpTo(RunContours, MaxContours) :
            /\ mod' = [loaded |-> TRUE, contours |-> cs]
            /\ pc' = "fillin"
            /\ UNCHANGED <<status, exc>>
       \/ Raise("IOError") /\ UNCHANGED mod
    /\ UNCHANGED <<envVars, tmpDir, usageShown, ncalls, toolFailed, zmin, zmax, zprev,
                   iCont, missingAt, nMultiZ, zlist, loopVars, getzVars, maskVars, objs>>

\* lines 170-177: imodmesh -e, imodmesh -CTs -P, imodfillin -e through
\* pyimod.utils.ImodCmd; imodfillin -e appends contours to the object
Fillin ==
    /\ pc = "fillin"
    /\ IF opts.runImodfillin
       THEN /\ \E extra \in SeqsUpTo(RunContours, MaxContours - Len(mod.contours)) :
                 mod' = [mod EXCEPT !.contours = @ \o extra]
            /\ ncalls' = ncalls + 3
       ELSE UNCHANGED <<mod, ncalls>>
    /\ pc' = "prune"
    /\ UNCHANGED <<envVars, tmpDir, usageShown, status, exc, toolFailed, zmin, zmax,
                   zprev, iCont, missingAt, nMultiZ, zlist, loopVars, getzVars, maskVars, objs>>

\* The Z values a sort may take for a contour: the Z of one of its points
\* (any Z for a contour without points).
ZsOf(c) ==
    IF c = <<>> THEN 0..MaxZ ELSE {PyInt(c[i]) : i \in 1..Len(c)}

RECURSIVE Ascending(_, _, _)
\* the contours of q from position i on can be given Z values of theirs, none
\* below lo, that never decrease
Ascending(q, i, lo) ==
    IF i > Len(q) THEN TRUE
    ELSE LET S == {z \in ZsOf(q[i]) : z >= lo}
         IN  /\ S # {}
             /\ Ascending(q, i + 1, CHOOSE z \in S : \A y \in S : z <= y)

\* sortContours: the contours in an order ascending in Z
SortResults(cs) ==
    LET n == Len(cs)
        perms == {p \in [1..n -> 1..n] : \A i, j \in 1..n : p[i] = p[j] => i = j}
    IN  {q \in {[i \in 1..n |-> cs[p[i]]] : p \in perms} : Ascending(q, 1, 0)}

\* lines 181-184: removeSmallContours (which contours count as small is
\* pyimod's business: any of them may go), then sortContours
Prune ==
    /\ pc = "prune"
    /\ \E keep \in SUBSET (1..Len(mod.contours)) :
         \E sorted \in SortResults(Keep(mod.contours, keep)) :
            mod' = [mod EXCEPT !.contours = sorted]
    /\ pc' = "zrange"
    /\ UNCHANGED <<envVars, tmpDir, usageShown, status, exc, ncalls, toolFailed, zmin,
                   zmax, zprev, iCont, missingAt, nMultiZ, zlist, loopVars, getzVars, maskVars, objs>>

Warned(r) == IF r.warn THEN 1 ELSE 0

\* lines 187-195: Contours[0] and Contours[-1] raise IndexError on an object
\* without contours
ZRange ==
    /\ pc = "zrange"
    /\ LET cs == mod.contours
           lo == get_z_from_ImodContour(cs[1])
           hi == get_z_from_ImodContour(cs[Len(cs)])
       IN  IF cs = <<>> \/ lo.raised \/ hi.raised
           THEN /\ Raise(IF cs = <<>> THEN "IndexError" ELSE "ValueError")
                /\ UNCHANGED <<zmin, zmax, zprev, zlist, iCont, nMultiZ>>
           ELSE /\ zmin' = lo.uq
                /\ zmax' = hi.uq
                /\ nMultiZ' = nMultiZ + Warned(lo) + Warned(hi)
                /\ zprev' = lo.uq
                /\ zlist' = <<>>
                /\ iCont' = 0
                /\ pc' = "zlist"
                /\ UNCHANGED <<status, exc>>
    /\ UNCHANGED <<envVars, tmpDir, usageShown, ncalls, toolFailed, mod, missingAt,
                   loopVars, getzVars, maskVars, objs>>

\* a variant of MissingContour that only sees a jump over a slice
MissingContourGapOnly(i, zi, prev) == i # 0 /\ zi > prev + 1

\* line 199: if iCont and zi != (zprev + 1)
MissingContour(i, zi, prev) == i # 0 /\ zi # prev + 1

\* lines 196-202: one iteration of the loop that builds zlist
ZlistStep ==
    /\ pc = "zlist"
    /\ iCont < Len(mod.contours)
    /\ LET r == get_z_from_ImodContour(mod.contours[iCont + 1])
       IN  IF r.raised
           THEN /\ Raise("ValueError")
                /\ UNCHANGED <<zprev, zlist, iCont, missingAt, nMultiZ>>
           ELSE /\ nMultiZ' = nMultiZ + Warned(r)
                /\ missingAt' = IF MissingContour(iCont, r.uq, zprev)
                                THEN missingAt \cup {iCont} ELSE missingAt
                /\ zlist' = Append(zlist, r.uq)
                /\ zprev' = r.uq
                /\ iCont' = iCont + 1
                /\ UNCHANGED <<pc, status, exc>>
    /\ UNCHANGED <<envVars, tmpDir, usageShown, ncalls, toolFailed, mod, zmin, zmax,
                   loopVars, getzVars, maskVars, objs>>

\* line 203: the loop is over, zlist is printed
ZlistDone ==
    /\ pc = "zlist"
    /\ iCont = Len(mod.contours)
    /\ pc' = "zlist_done"
    /\ UNCHANGED <<envVars, tmpDir, usageShown, status, exc, ncalls, toolFailed,
                   modelVars, zlist, loopVars, getzVars, maskVars, objs>>

Next ==
    \/ CheckArgs \/ CheckOut \/ CheckTmp \/ Makedirs \/ LoadModel \/ Fillin
    \/ Prune \/ ZRange \/ ZlistStep \/ ZlistDone

Spec == Init /\ [][Next]_vars

-----------------------------------------------------------------------------
(* Properties of Spec. *)

ValidationPcs == {"check_args", "check_out", "check_tmp"}

\* C1: every validation failure (argument count other than 3, volume or model
\* path not a file, segmentation or output path not a directory, a directory
\* tmp already under the output path) ends in usage() and exit status 1, and
\* the run never gets past validation: the tmp directory is neither created
\* nor touched, no model is loaded, no external tool is invoked.
C1_ValidationFailureExitsClean ==
    /\ (args # 3 \/ ~fs.mrc \/ ~fs.mod \/ ~fs.seg)
          => pc \in {"check_args", "exit"}
    /\ (~fs.out \/ tmpDir = "dir") => pc \in ValidationPcs \cup {"exit"}
    /\ pc = "exit" =>
          /\ usageShown /\ status = 1
          /\ args # 3 \/ ~fs.mrc \/ ~fs.mod \/ ~fs.seg \/ ~fs.out \/ tmpDir = "dir"
          /\ tmpDir # "made" /\ files = {}
          /\ ~mod.loaded
          /\ ncalls = 0
    /\ pc \in ValidationPcs => tmpDir # "made" /\ ~mod.loaded /\ ncalls = 0

\* C1 witness: all paths are valid but tmp already exists, and the run has
\* ended in usage()
C1_Witness ==
    /\ pc = "exit" /\ usageShown
    /\ args = 3 /\ fs.mrc /\ fs.mod /\ fs.seg /\ fs.out /\ tmpDir = "dir"

\* C4: while zlist is built, 'Missing contour' is printed for position i
\* exactly when i > 0 and zlist[i] # zlist[i-1] + 1 (repeated Z values
\* included); the warning stops nothing: when the loop is over zlist holds one
\* entry per contour, in contour order, and the only runs that stop in this
\* phase stop on a model without contours or a contour without points.
C4_MissingContourWarning ==
    /\ missingAt \subseteq 0..(Len(zlist) - 1)
    /\ \A i \in 0..(Len(zlist) - 1) :
          (i \in missingAt) <=> (i > 0 /\ zlist[i + 1] # zlist[i] + 1)
    /\ pc = "zlist" => iCont = Len(zlist) /\ Len(zlist) <= Len(mod.contours)
    /\ pc = "zlist_done" =>
          /\ Len(zlist) = Len(mod.contours)
          /\ \A i \in 1..Len(zlist) : zlist[i] \in ZsOf(mod.contours[i])
    /\ (pc = "crashed" /\ mod.loaded) =>
          \/ mod.contours = <<>>
          \/ \E i \in 1..Len(mod.contours) : mod.contours[i] = <<>>

\* C4 witness: contours at Z = 0 and Z = 2, one warning, for the second
C4_Witness ==
    /\ pc = "zlist_done"
    /\ zlist = <<0, 2>>
    /\ missingAt = {1}

\* C4 witness of the repeated value: contours at Z = 1 and Z = 1
C4_WitnessRepeat ==
    /\ pc = "zlist_done"
    /\ zlist = <<1, 1>>
    /\ missingAt = {1}

-----------------------------------------------------------------------------
(* SpecGetZ: get_z_from_ImodContour on one contour. *)

Coords == 0..(2 * MaxZ + 1)

InitGetZ ==
    /\ pc = "get_z"
    /\ Validated /\ opts = DefaultOpts
    /\ IdleRun /\ IdleModel /\ zlist = <<>> /\ IdleLoop /\ IdleMask /\ IdlePost
    /\ cont \in SeqsUpTo(Coords, MaxPts)
    /\ uq = 0

\* one call of get_z_from_ImodContour(cont), lines 120-133
GetZ ==
    /\ pc = "get_z"
    /\ LET r == get_z_from_ImodContour(cont)
       IN  IF r.raised
           THEN Raise("ValueError") /\ UNCHANGED <<uq, nMultiZ>>
           ELSE /\ uq' = r.uq
                /\ nMultiZ' = nMultiZ + Warned(r)
                /\ pc' = "returned"
                /\ UNCHANGED <<status, exc>>
    /\ UNCHANGED <<envVars, tmpDir, usageShown, ncalls, toolFailed, mod, zmin, zmax,
                   zprev, iCont, missingAt, zlist, loopVars, cont, maskVars, objs>>

NextGetZ == GetZ

SpecGetZ == InitGetZ /\ [][NextGetZ]_vars

\* the integer Z values of the points of cont
ContZ == [i \in 1..Len(cont) |-> PyInt(cont[i])]

Multiplicity(z) == Cardinality({i \in 1..Len(cont) : ContZ[i] = z})

\* C3: for a contour whose points all have one Z value that value is
\* returned and no warning printed; for a contour with several Z values a
\* value of greatest multiplicity is returned and the multi-Z warning printed.
C3_ModeOfZ ==
    pc = "returned" =>
        IF Cardinality(Range(ContZ)) = 1
        THEN uq \in Range(ContZ) /\ nMultiZ = 0
        ELSE /\ \A z \in Range(ContZ) : Multiplicity(uq) >= Multiplicity(z)
             /\ nMultiZ = 1

-----------------------------------------------------------------------------
(* SpecLoop: lines 212-303.  The content of the model and of the rasters is *)
(* not followed here (SpecMask follows the rasters); mod, zmin, zmax, zprev *)
(* and iCont are not read again.                                            *)

\* str(zi).zfill(4): zeros between the sign and the digits, up to 4 characters
zfill4(z) ==
    LET a == IF z < 0 THEN -z ELSE z
        w == IF z < 0 THEN 3 ELSE 4
        d == IF a < 10 THEN 1 ELSE IF a < 100 THEN 2 ELSE IF a < 1000 THEN 3 ELSE 4
        pad == IF w - d >= 3 THEN "000" ELSE IF w - d = 2 THEN "00"
               ELSE IF w - d = 1 THEN "0" ELSE ""
    IN  (IF z < 0 THEN "-" ELSE "") \o pad \o ToString(a)

\* file_tmp + ext, line 225
TmpName(z, ext) == zfill4(z) \o ext

CellMod == "cell.mod"
OutTxt == "out.txt"
OutMod == "out.mod"

\* the slice being processed
Zi == zlist[k]

\* a line of a point listing, 'object contour x y z' (x and y are copied
\* through unread and left out)
Line(c, z) == [obj |-> 1, cont |-> c, z |-> z]

\* The contour column of the listings model2point -object writes: contours
\* numbered from 1, the lines of a contour together, no number left out.
ContourColumns ==
    {cs \in SeqsUpTo(1..MaxLines, MaxLines) :
        cs = <<>> \/ /\ cs[1] = 1
                     /\ \A i \in 1..(Len(cs) - 1) : cs[i + 1] \in {cs[i], cs[i] + 1}}

\* imodauto works on one section (Z = 0) and imodtrans -tz moves it to z
Listings(z) == {[i \in 1..Len(cs) |-> Line(cs[i], z)] : cs \in ContourColumns}

InitLoop ==
    /\ pc = "glob"
    /\ Validated
    /\ opts \in {[DefaultOpts EXCEPT !.runPostprocessing = b] : b \in BOOLEAN}
    /\ IdleRun /\ IdleModel /\ IdleLoop /\ IdleGetZ /\ IdleMask /\ IdlePost
    /\ zlist \in SeqsUpTo(0..MaxZ, MaxSlices) \ {<<>>}

\* lines 212-213: filesOrg = sorted(glob.glob(path_seg/*)); a file is known
\* by its position in the sorted list
ListFiles ==
    /\ pc = "glob"
    /\ nfiles' \in 0..MaxFiles
    /\ pc' = "write_cell"
    /\ UNCHANGED <<envVars, tmpDir, usageShown, status, exc, ncalls, toolFailed,
                   modelVars, zlist, dims, files, k, C, txt, acc, orgIdx,
                   getzVars, maskVars, objs>>

\* lines 216-220: pyimod.ImodWrite(mod, file_cell); C = 0
WriteCell ==
    /\ pc = "write_cell"
    /\ files' = files \cup {CellMod}
    /\ C' = 0
    /\ k' = 0
    /\ pc' = "loop"
    /\ UNCHANGED <<envVars, tmpDir, usageShown, status, exc, ncalls, toolFailed,
                   modelVars, zlist, dims, nfiles, txt, acc, orgIdx, getzVars,
                   maskVars, objs>>

\* line 221: for zi in zlist
LoopHead ==
    /\ pc = "loop"
    /\ IF k < Len(zlist)
       THEN k' = k + 1 /\ pc' = "imodmop"
       ELSE k' = k /\ pc' = "rm_cell"
    /\ UNCHANGED <<envVars, tmpDir, usageShown, status, exc, ncalls, toolFailed,
                   modelVars, zlist, dims, nfiles, files, C, txt, acc, orgIdx,
                   getzVars, maskVars, objs>>

\* a variant of call that stops on a non-zero exit status, as
\* subprocess.check_call does
check_call(inputs, outputs, next) ==
    \E st \in {0, 1}, produced \in BOOLEAN :
        /\ st = 0 => produced
        /\ produced => inputs \subseteq files
        /\ files' = IF produced THEN files \cup outputs ELSE files
        /\ toolFailed' = (toolFailed \/ st # 0)
        /\ ncalls' = ncalls + 1
        /\ IF st # 0 THEN Raise("CalledProcessError")
                     ELSE pc' = next /\ UNCHANGED <<status, exc>>

\* subprocess.call(cmd.split()): the tool runs to its end and its exit status
\* is the value of the call, which the script drops.  A tool that exits with
\* 0 has written its output; one that does not may or may not have; none
\* writes its output without its input.
call(inputs, outputs, next) ==
    \E st \in {0, 1}, produced \in BOOLEAN :
        /\ st = 0 => produced
        /\ produced => inputs \subseteq files
        /\ files' = IF produced THEN files \cup outputs ELSE files
        /\ toolFailed' = (toolFailed \/ st # 0)
        /\ ncalls' = ncalls + 1
        /\ pc' = next
        /\ UNCHANGED <<status, exc>>

\* os.remove(name): OSError (ENOENT) when the file is not there
os_remove(name, next) ==
    /\ IF name \in files
       THEN files' = files \ {name} /\ pc' = next /\ UNCHANGED <<status, exc>>
       ELSE Raise("ENOENT") /\ UNCHANGED files
    /\ UNCHANGED <<ncalls, toolFailed>>

\* lines 226-229
Imodmop ==
    /\ pc = "imodmop"
    /\ call({CellMod}, {TmpName(Zi, ".mrc")}, "mrc2tif")
    /\ UNCHANGED <<envVars, tmpDir, usageShown, modelVars, zlist, dims, nfiles,
                   k, C, txt, acc, orgIdx, getzVars, maskVars, objs>>

\* lines 230-232
Mrc2tif ==
    /\ pc = "mrc2tif"
    /\ call({TmpName(Zi, ".mrc")}, {TmpName(Zi, ".tif")}, "rm_mrc")
    /\ UNCHANGED <<envVars, tmpDir, usageShown, modelVars, zlist, dims, nfiles,
                   k, C, txt, acc, orgIdx, getzVars, maskVars, objs>>

\* line 233
RmMrc ==
    /\ pc = "rm_mrc"
    /\ os_remove(TmpName(Zi, ".mrc"), "rasters")
    /\ UNCHANGED <<envVars, tmpDir, usageShown, modelVars, zlist, dims, nfiles,
                   k, C, txt, acc, orgIdx, getzVars, maskVars, objs>>

\* list[i] on a list of n elements: the 0-based position read, -1 for
\* IndexError.  A negative i counts from the end.
PyIndex(n, i) ==
    IF 0 <= i /\ i < n THEN i
    ELSE IF -n <= i /\ i < 0 THEN n + i
    ELSE -1

\* lines 236-251: imread of the cell mask, imread of filesOrg[zi - 1], the
\* resizes, logical_and, and imsave over the cell mask
Rasters ==
    /\ pc = "rasters"
    /\ IF TmpName(Zi, ".tif") \notin files
       THEN Raise("ENOENT") /\ UNCHANGED orgIdx
       ELSE IF PyIndex(nfiles, Zi - 1) = -1
       THEN Raise("IndexError") /\ UNCHANGED orgIdx
       ELSE /\ orgIdx' = PyIndex(nfiles, Zi - 1)
            /\ pc' = "imodauto"
            /\ UNCHANGED <<status, exc>>
    /\ UNCHANGED <<envVars, tmpDir, usageShown, ncalls, toolFailed, modelVars,
                   zlist, dims, nfiles, files, k, C, txt, acc, getzVars, maskVars,
                   objs>>

\* lines 255-261
Imodauto ==
    /\ pc = "imodauto"
    /\ call({TmpName(Zi, ".tif")}, {TmpName(Zi, ".mod")}, "rm_tif")
    /\ UNCHANGED <<envVars, tmpDir, usageShown, modelVars, zlist, dims, nfiles,
                   k, C, txt, acc, orgIdx, getzVars, maskVars, objs>>

\* line 262
RmTif ==
    /\ pc = "rm_tif"
    /\ os_remove(TmpName(Zi, ".tif"), "imodtrans")
    /\ UNCHANGED <<envVars, tmpDir, usageShown, modelVars, zlist, dims, nfiles,
                   k, C, txt, acc, orgIdx, getzVars, maskVars, objs>>

\* lines 265-266: imodtrans writes over its input and keeps the old file
\* as <name>~
Imodtrans ==
    /\ pc = "imodtrans"
    /\ call({TmpName(Zi, ".mod")}, {TmpName(Zi, ".mod~")}, "rm_bak")
    /\ UNCHANGED <<envVars, tmpDir, usageShown, modelVars, zlist, dims, nfiles,
                   k, C, txt, acc, orgIdx, getzVars, maskVars, objs>>

\* a variant of RmBak: the backup file is left where it is
RmBakForgotten ==
    /\ pc = "rm_bak"
    /\ pc' = "model2point"
    /\ UNCHANGED <<envVars, tmpDir, usageShown, status, exc, ncalls, toolFailed,
                   modelVars, zlist, loopVars, getzVars, maskVars, objs>>

\* line 267
RmBak ==
    /\ pc = "rm_bak"
    /\ os_remove(TmpName(Zi, ".mod~"), "model2point")
    /\ UNCHANGED <<envVars, tmpDir, usageShown, modelVars, zlist, dims, nfiles,
                   k, C, txt, acc, orgIdx, getzVars, maskVars, objs>>

\* lines 271-274: the listing written is one of Listings(zi - 1)
Model2point ==
    /\ pc = "model2point"
    /\ call({TmpName(Zi, ".mod")}, {TmpName(Zi, ".txt")}, "rm_mod")
    /\ IF TmpName(Zi, ".txt") \in files'
       THEN txt' \in Listings(Zi - 1)
       ELSE txt' = txt
    /\ UNCHANGED <<envVars, tmpDir, usageShown, modelVars, zlist, dims, nfiles,
                   k, C, acc, orgIdx, getzVars, maskVars, objs>>

\* line 275
RmMod ==
    /\ pc = "rm_mod"
    /\ os_remove(TmpName(Zi, ".mod"), "accumulate")
    /\ UNCHANGED <<envVars, tmpDir, usageShown, modelVars, zlist, dims, nfiles,
                   k, C, txt, acc, orgIdx, getzVars, maskVars, objs>>

\* a variant of Renumber that forgets the offset
RenumberNoOffset(line, c) == [line EXCEPT !.obj = 1]

\* lines 287-289: '1 {int(lsplit[1]) + C} x y z'
Renumber(line, c) == [line EXCEPT !.obj = 1, !.cont = @ + c]

\* lines 280-283: the contour number of the last line
Ncont(listing) == listing[Len(listing)].cont

\* a variant of AccFiles that opens out.txt before it looks at the listing
AccFilesAlways(fileset, listing) == fileset \cup {OutTxt}

\* line 284: open(file_out + '.txt', 'a+') creates the file; it is only
\* reached with a listing that is not empty
AccFiles(fileset, listing) ==
    IF listing # <<>> THEN fileset \cup {OutTxt} ELSE fileset

\* lines 278-291
Accumulate ==
    /\ pc = "accumulate"
    /\ IF TmpName(Zi, ".txt") \notin files
       THEN Raise("ENOENT") /\ UNCHANGED <<files, acc, C>>
       ELSE /\ files' = AccFiles(files, txt)
            /\ IF txt # <<>>
               THEN /\ acc' = acc \o [i \in 1..Len(txt) |-> Renumber(txt[i], C)]
                    /\ C' = C + Ncont(txt)
               ELSE UNCHANGED <<acc, C>>
            /\ pc' = "rm_txt"
            /\ UNCHANGED <<status, exc>>
    /\ UNCHANGED <<envVars, tmpDir, usageShown, ncalls, toolFailed, modelVars,
                   zlist, dims, nfiles, k, txt, orgIdx, getzVars, maskVars, objs>>

\* line 292
RmTxt ==
    /\ pc = "rm_txt"
    /\ os_remove(TmpName(Zi, ".txt"), "loop")
    /\ txt' = IF TmpName(Zi, ".txt") \in files THEN <<>> ELSE txt
    /\ UNCHANGED <<envVars, tmpDir, usageShown, modelVars, zlist, dims, nfiles,
                   k, C, acc, orgIdx, getzVars, maskVars, objs>>

\* line 293
RmCell ==
    /\ pc = "rm_cell"
    /\ os_remove(CellMod, "point2model")
    /\ UNCHANGED <<envVars, tmpDir, usageShown, modelVars, zlist, dims, nfiles,
                   k, C, txt, acc, orgIdx, getzVars, maskVars, objs>>

\* lines 296-299
Point2model ==
    /\ pc = "point2model"
    /\ call({OutTxt}, {OutMod}, "post")
    /\ UNCHANGED <<envVars, tmpDir, usageShown, modelVars, zlist, dims, nfiles,
                   k, C, txt, acc, orgIdx, getzVars, maskVars, objs>>

\* lines 302-303: without --runPostprocessing the run is over; with it the
\* assembled model is read back
ReadOut ==
    /\ pc = "post"
    /\ IF ~opts.runPostprocessing
       THEN pc' = "done" /\ status' = 0 /\ UNCHANGED exc
       ELSE IF OutMod \in files
       THEN pc' = "postprocess" /\ UNCHANGED <<status, exc>>
       ELSE Raise("ENOENT")
    /\ UNCHANGED <<envVars, tmpDir, usageShown, ncalls, toolFailed, modelVars,
                   zlist, loopVars, getzVars, maskVars, objs>>

NextLoop ==
    \/ ListFiles \/ WriteCell \/ LoopHead
    \/ Imodmop \/ Mrc2tif \/ RmMrc \/ Rasters \/ Imodauto \/ RmTif
    \/ Imodtrans \/ RmBak \/ Model2point \/ RmMod \/ Accumulate \/ RmTxt
    \/ RmCell \/ Point2model \/ ReadOut

SpecLoop == InitLoop /\ [][NextLoop]_vars

-----------------------------------------------------------------------------
(* Properties of SpecLoop. *)

ToolPcs == {"imodmop", "mrc2tif", "imodauto", "imodtrans", "model2point",
            "point2model"}

\* the positions of an iteration after the organelle raster has been loaded
AfterRasters == {"imodauto", "rm_tif", "imodtrans", "rm_bak", "model2point",
                 "rm_mod", "accumulate", "rm_txt"}

SliceExts == {".mrc", ".tif", ".mod", ".mod~", ".txt"}

\* the number of contours of a listing
NContours(listing) == Cardinality({listing[i].cont : i \in 1..Len(listing)})

\* C2: with listings that number their contours 1..n, a slice with n contours
\* moves C to C + n and writes contour numbers C+1..C+n behind what the
\* accumulator holds; nothing else changes C or the accumulator, which start
\* at 0 and empty.  So C is the sum of the contour counts of the slices
\* processed, every number in the accumulator lies in 1..C, and no number
\* written for a slice is a number written for another.
C2_ContourCounter ==
    /\ [](pc = "loop" /\ k = 0 => C = 0 /\ acc = <<>>)
    /\ [](\A i \in 1..Len(acc) : acc[i].cont \in 1..C)
    /\ [][(pc = "accumulate" /\ pc' = "rm_txt") =>
            /\ C' = C + NContours(txt)
            /\ Len(acc') = Len(acc) + Len(txt)
            /\ SubSeq(acc', 1, Len(acc)) = acc
            /\ \A i \in (Len(acc) + 1)..Len(acc') :
                  acc'[i].cont \in (C + 1)..(C + NContours(txt))]_vars
    /\ [][pc \notin {"accumulate", "write_cell"} => C' = C /\ acc' = acc]_vars

\* C2 witness: two slices have written contours, the second above the first
C2_Witness ==
    /\ pc = "rm_txt" /\ k = 2
    /\ C = 3
    /\ Len(acc) >= 2
    /\ acc[1].cont = 1 /\ acc[1].z = zlist[1] - 1
    /\ acc[Len(acc)].cont = 3 /\ acc[Len(acc)].z = zlist[2] - 1
    /\ zlist[1] # zlist[2]

\* C6: the organelle raster loaded for slice zi is the file at position
\* zi - 1 of the sorted listing, and with zi < 1 or zi > len(filesOrg) the
\* load fails.
C6_FileOfSlice ==
    pc \in AfterRasters =>
        /\ 1 <= Zi /\ Zi <= nfiles
        /\ orgIdx = Zi - 1

\* C7: a slice whose listing is empty leaves C and the accumulator as they
\* are (out.txt is not created), its listing is deleted all the same and the
\* loop goes on to the next slice.
C7_EmptyListing ==
    /\ [][(pc = "accumulate" /\ TmpName(Zi, ".txt") \in files /\ txt = <<>>) =>
            /\ C' = C /\ acc' = acc
            /\ files' = files
            /\ pc' = "rm_txt"]_vars
    /\ [][(pc = "rm_txt" /\ TmpName(Zi, ".txt") \in files) =>
            /\ files' = files \ {TmpName(Zi, ".txt")}
            /\ C' = C /\ acc' = acc
            /\ pc' = "loop"]_vars
    /\ [][(pc = "loop" /\ k < Len(zlist)) => pc' = "imodmop" /\ k' = k + 1]_vars

\* C7 witness: the first slice had an empty listing, no accumulator exists
\* and the second slice has begun
C7_Witness ==
    /\ pc = "imodmop" /\ k = 2
    /\ C = 0 /\ acc = <<>>
    /\ files = {CellMod}

C10_NoSliceFilesLeft ==
    ~toolFailed =>
        /\ pc \in {"loop", "rm_cell"} =>
              /\ files \subseteq {CellMod, OutTxt}
              /\ \A i \in 1..k : \A e \in SliceExts : TmpName(zlist[i], e) \notin files
        /\ pc = "point2model" => files \subseteq {OutTxt}

\* C10 witness: two slices done with every tool successful, cell.mod deleted,
\* only out.txt left
C10_Witness ==
    /\ pc = "point2model" /\ ~toolFailed
    /\ k = 2 /\ ncalls = 10
    /\ files = {OutTxt}

-----------------------------------------------------------------------------
(* SpecMask: lines 206-209 and 236-251, the rasters of one slice.  A raster  *)
(* is the sequence of its rows, a pixel is 0 or 1 (zero or not).            *)

Rasters2D ==
    UNION {[1..r -> [1..c -> {0, 1}]] : r \in 1..MaxDim, c \in 1..MaxDim}

\* img.shape[0], img.shape[1]
Shape(img) == <<Len(img), Len(img[1])>>

\* scipy.misc.imresize(img, [rows, cols]): a raster of the size asked for.
\* Each pixel is taken from the source pixel its position scales to (scipy
\* interpolates between neighbours; on a constant raster the two agree).
imresize(img, size) ==
    LET r0 == Len(img)
        c0 == Len(img[1])
    IN  [i \in 1..size[1] |->
            [j \in 1..size[2] |->
                img[((i - 1) * r0) \div size[1] + 1][((j - 1) * c0) \div size[2] + 1]]]

\* np.logical_and on two rasters of one shape
logical_and(a, b) ==
    [i \in 1..Len(a) |->
        [j \in 1..Len(a[1]) |-> IF a[i][j] # 0 /\ b[i][j] # 0 THEN 1 ELSE 0]]

InitMask ==
    /\ pc = "dims"
    /\ Validated /\ opts = DefaultOpts
    /\ IdleRun /\ IdleModel /\ zlist = <<>> /\ IdleLoop /\ IdleGetZ /\ IdlePost
    /\ imgCell = NoImg /\ imgOrg = NoImg /\ imgMask = NoImg
    /\ disk \in [cell : Rasters2D, org : Rasters2D]

\* lines 206-209: pyimod.mrc.get_dims
GetDims ==
    /\ pc = "dims"
    /\ \E r, c \in 1..MaxDim : dims' = <<r, c>>
    /\ pc' = "imread"
    /\ UNCHANGED <<envVars, tmpDir, usageShown, status, exc, ncalls, toolFailed,
                   modelVars, zlist, nfiles, files, k, C, txt, acc, orgIdx,
                   getzVars, maskVars, objs>>

\* lines 236-239: misc.imread of the cell mask and of the organelle raster
Imread ==
    /\ pc = "imread"
    /\ imgCell' = disk.cell
    /\ imgOrg' = disk.org
    /\ pc' = "resize_cell"
    /\ UNCHANGED <<envVars, tmpDir, usageShown, status, exc, ncalls, toolFailed,
                   modelVars, zlist, loopVars, getzVars, imgMask, disk, objs>>

\* lines 242-243: the source of the resize is imgOrg
ResizeCell ==
    /\ pc = "resize_cell"
    /\ imgCell' = IF Shape(imgCell)[1] # dims[1] \/ Shape(imgCell)[2] # dims[2]
                  THEN imresize(imgOrg, dims)
                  ELSE imgCell
    /\ pc' = "resize_org"
    /\ UNCHANGED <<envVars, tmpDir, usageShown, status, exc, ncalls, toolFailed,
                   modelVars, zlist, loopVars, getzVars, imgOrg, imgMask, disk,
                   objs>>

\* lines 245-246
ResizeOrg ==
    /\ pc = "resize_org"
    /\ imgOrg' = IF Shape(imgOrg)[1] # dims[1] \/ Shape(imgOrg)[2] # dims[2]
                 THEN imresize(imgOrg, dims)
                 ELSE imgOrg
    /\ pc' = "and"
    /\ UNCHANGED <<envVars, tmpDir, usageShown, status, exc, ncalls, toolFailed,
                   modelVars, zlist, loopVars, getzVars, imgCell, imgMask, disk,
                   objs>>

\* lines 249-250 (astype returns a copy that is dropped)
LogicalAnd ==
    /\ pc = "and"
    /\ imgMask' = logical_and(imgCell, imgOrg)
    /\ pc' = "masked"
    /\ UNCHANGED <<envVars, tmpDir, usageShown, status, exc, ncalls, toolFailed,
                   modelVars, zlist, loopVars, getzVars, imgCell, imgOrg, disk,
                   objs>>

\* line 251: misc.imsave over the cell mask
Imsave ==
    /\ pc = "masked"
    /\ disk' = [disk EXCEPT !.cell = imgMask]
    /\ pc' = "saved"
    /\ UNCHANGED <<envVars, tmpDir, usageShown, status, exc, ncalls, toolFailed,
                   modelVars, zlist, loopVars, getzVars, imgCell, imgOrg, imgMask,
                   objs>>

NextMask == GetDims \/ Imread \/ ResizeCell \/ ResizeOrg \/ LogicalAnd \/ Imsave

SpecMask == InitMask /\ [][NextMask]_vars

\* a raster as the intersection is to see it: itself when it has the shape
\* of the volume, resized to that shape when it has not
Fitted(img) == IF Shape(img) = dims THEN img ELSE imresize(img, dims)

\* C5: the intersection mask of a slice is the elementwise AND of the cell
\* mask and the organelle raster, each resized first to the volume's
\* (rows, cols) when its shape differs from it; the mask has that shape.
C5_Intersection ==
    pc = "masked" =>
        /\ Shape(imgMask) = dims
        /\ imgMask = logical_and(Fitted(disk.cell), Fitted(disk.org))

-----------------------------------------------------------------------------
(* SpecPost: lines 302-335, after the read of out.mod.  An object is its    *)
(* position in what imodsortsurf returned and its number of contours.       *)

Obj(i, n) == [id |-> i, n |-> n]

\* bool(v) and int(v) of an option value
PyTruthy(v) == IF v.isStr THEN TRUE ELSE v.n # 0
PyIntOf(v) == v.n

InitPost ==
    /\ pc = "remesh"
    /\ Validated
    /\ opts \in {[DefaultOpts EXCEPT !.runPostprocessing = TRUE,
                                     !.filterByNContours = f,
                                     !.mergeAll = m] :
                    f \in {OptDefault} \cup {OptStr(n) : n \in 0..MaxThreshold},
                    m \in BOOLEAN}
    /\ IdleRun /\ IdleModel /\ zlist = <<>> /\ IdleGetZ /\ IdleMask
    /\ dims = <<0, 0>> /\ nfiles = 0 /\ k = 0 /\ C = 0 /\ txt = <<>> /\ acc = <<>>
    /\ orgIdx = -1
    /\ files = {OutTxt, OutMod}
    /\ objs \in {<<Obj(1, n)>> : n \in 0..MaxCount}

\* lines 306-310: imodmesh -e, imodmesh -CTs -P
Remesh ==
    /\ pc = "remesh"
    /\ ncalls' = ncalls + 2
    /\ pc' = "sortsurf"
    /\ UNCHANGED <<envVars, tmpDir, usageShown, status, exc, toolFailed, modelVars,
                   zlist, loopVars, getzVars, maskVars, objs>>

\* line 313: imodsortsurf -s, one object per connected surface
SortSurf ==
    /\ pc = "sortsurf"
    /\ \E ns \in SeqsUpTo(0..MaxCount, MaxObjects) :
          objs' = [i \in 1..Len(ns) |-> Obj(i, ns[i])]
    /\ ncalls' = ncalls + 1
    /\ pc' = "filter"
    /\ UNCHANGED <<envVars, tmpDir, usageShown, status, exc, toolFailed, modelVars,
                   zlist, loopVars, getzVars, maskVars>>

Compare(a, compStr, b) ==
    CASE compStr = ">" -> a > b
      [] compStr = ">=" -> a >= b
      [] compStr = "<" -> a < b
      [] compStr = "<=" -> a <= b
      [] compStr = "=" -> a = b

\* mod.filterByNContours(compStr, n): the objects whose number of contours
\* stands in compStr to n stay, the others are removed
filterByNContours(os, compStr, n) ==
    Keep(os, {i \in 1..Len(os) : Compare(os[i].n, compStr, n)})

\* a variant of FilterStep that keeps the objects with n contours too
FilterStepGE(os, v) ==
    IF PyTruthy(v) THEN filterByNContours(os, ">=", PyIntOf(v)) ELSE os

\* lines 316-317
FilterStep(os, v) ==
    IF PyTruthy(v) THEN filterByNContours(os, ">", PyIntOf(v)) ELSE os

Filter ==
    /\ pc = "filter"
    /\ objs' = FilterStep(objs, opts.filterByNContours)
    /\ pc' = "merge"
    /\ UNCHANGED <<envVars, tmpDir, usageShown, status, exc, ncalls, toolFailed,
                   modelVars, zlist, loopVars, getzVars, maskVars>>

\* lines 320-321: mod.moveObjects(1, '2-{nObjects}') moves the contours of
\* the objects from the second on into the first; with fewer than two objects
\* the range names no object, and what pyimod makes of it is left open
Merge ==
    /\ pc = "merge"
    /\ IF ~opts.mergeAll
       THEN objs' = objs /\ pc' = "remesh2" /\ UNCHANGED <<status, exc>>
       ELSE IF Len(objs) >= 2
       THEN /\ objs' = <<Obj(objs[1].id, SumSeq([i \in 1..Len(objs) |-> objs[i].n]))>>
            /\ pc' = "remesh2"
            /\ UNCHANGED <<status, exc>>
       ELSE \/ objs' = objs /\ pc' = "remesh2" /\ UNCHANGED <<status, exc>>
            \/ Raise("ValueError") /\ objs' = objs
    /\ UNCHANGED <<envVars, tmpDir, usageShown, ncalls, toolFailed, modelVars,
                   zlist, loopVars, getzVars, maskVars>>

\* lines 324-335: imodmesh -e, imodmesh -CTs -P; setAll changes names and
\* colours only; ImodWrite writes out_postprocessed.mod
WritePost ==
    /\ pc = "remesh2"
    /\ ncalls' = ncalls + 2
    /\ files' = files \cup {"out_postprocessed.mod"}
    /\ status' = 0
    /\ pc' = "done"
    /\ UNCHANGED <<envVars, tmpDir, usageShown, exc, toolFailed, modelVars, zlist,
                   dims, nfiles, k, C, txt, acc, orgIdx, getzVars, maskVars, objs>>

NextPost == Remesh \/ SortSurf \/ Filter \/ Merge \/ WritePost

SpecPost == InitPost /\ [][NextPost]_vars

\* C8: given --filterByNContours n, the filter step removes every object with
\* n contours or fewer and keeps, in their order, the objects with more; not
\* given, it removes nothing.  It is the step after the split by
\* connectivity and the step before the merge, and the option is what
\* decides: the other steps leave the objects alone.
C8_FilterByNContours ==
    /\ [][pc = "filter" =>
            LET v == opts.filterByNContours
            IN  IF v.isStr
                THEN /\ \A i \in 1..Len(objs) :
                          (\E j \in 1..Len(objs') : objs'[j] = objs[i])
                              <=> objs[i].n > v.n
                     /\ \A j \in 1..Len(objs') : \E i \in 1..Len(objs) : objs'[j] = objs[i]
                     /\ \A i, j \in 1..Len(objs') : i < j => objs'[i].id < objs'[j].id
                ELSE objs' = objs]_vars
    /\ [][pc = "sortsurf" => pc' = "filter"]_vars
    /\ [][pc = "filter" => pc' = "merge"]_vars
    /\ [][pc \notin {"sortsurf", "filter", "merge"} => objs' = objs]_vars

\* C8 witness: with --filterByNContours 1, of an object with 1 contour and an
\* object with 2 the second alone is left when the merge is reached
C8_Witness ==
    /\ pc = "merge"
    /\ opts.filterByNContours = OptStr(1)
    /\ objs = <<Obj(2, 2)>>

=============================================================================
